---- MODULE Spec2Model ----
(***************************************************************************)
(* Eulerian video magnification (src/app/evm.py, src/app/pyramid_utils.py). *)
(*                                                                         *)
(* Application.  SpecGui is the window of src/app/gui.py around the        *)
(* pipeline: its handlers, the steps of ProcessingThread.run and the       *)
(* signals queued for the GUI thread, delivered oldest first.              *)
(*                                                                         *)
(* Numbers.  Pixel values are exact rationals; float32 rounding is not     *)
(* modelled, so every equality below is an equality "up to rounding" of    *)
(* the program's values.                                                   *)
(*                                                                         *)
(* Images.  An image is [h |-> height, row |-> <<n, ...>>, unit |-> u]: a  *)
(* one-channel image of shape (h, Len(row)) whose rows are all equal and   *)
(* whose pixel x has the value row[x] / unit.  The separable 5-tap kernels *)
(* of cv2.pyrDown / cv2.pyrUp sum to one in each direction and their       *)
(* borders are reflections, so such an image stays uniform along the       *)
(* vertical axis and its row is transformed by the horizontal pass alone;  *)
(* the height follows the size rule.  Images are kept in lowest terms      *)
(* (Image), so equal images are equal values.                              *)
(***************************************************************************)
EXTENDS Integers, Sequences, FiniteSets, TLC

\* ------------------------------------------------------------------ bounds
MaxTotal == 3
MaxCap == 2
MaxLevels == 3
MaxWidth == 6
MaxPosted == 4

\* -------------------------------------------------------------- arithmetic
Abs(x) == IF x < 0 THEN -x ELSE x

Min(a, b) == IF a <= b THEN a ELSE b

Max(a, b) == IF a >= b THEN a ELSE b

RECURSIVE GCD(_, _)
GCD(a, b) == IF b = 0 THEN a ELSE GCD(b, a % b)

LCM(a, b) == (a \div GCD(a, b)) * b

\* The function f over 1..n as the tuple of its values (an array holds values).
Array(f) == f \o <<>>

\* ------------------------------------------------------------------ images
RECURSIVE RowGCD(_, _, _)
RowGCD(row, x, g) == IF x > Len(row) THEN g ELSE RowGCD(row, x + 1, GCD(g, Abs(row[x])))

\* The image of shape (h, Len(row)) with the pixel values row[x] / unit.
Image(h, row, unit) ==
    LET r == Array(row)
        g == RowGCD(r, 1, unit)
    IN  [h |-> h, row |-> Array([x \in 1..Len(r) |-> r[x] \div g]), unit |-> unit \div g]

Shape(img) == <<img.h, Len(img.row)>>

MinDim(img) == Min(img.h, Len(img.row))

\* a's numerators over the unit u, a multiple of a.unit.
Over(a, u) == [x \in 1..Len(a.row) |-> a.row[x] * (u \div a.unit)]

ImgAdd(a, b) ==
    LET u == LCM(a.unit, b.unit)
    IN  Image(a.h, [x \in 1..Len(a.row) |-> Over(a, u)[x] + Over(b, u)[x]], u)

ImgSub(a, b) ==
    LET u == LCM(a.unit, b.unit)
    IN  Image(a.h, [x \in 1..Len(a.row) |-> Over(a, u)[x] - Over(b, u)[x]], u)

ImgScale(k, a) == Image(a.h, [x \in 1..Len(a.row) |-> k * a.row[x]], a.unit)

ZerosLike(a) == Image(a.h, [x \in 1..Len(a.row) |-> 0], 1)

\* ------------------------------------------------- cv2.pyrDown / cv2.pyrUp
\* BORDER_REFLECT_101 (cv2 BORDER_DEFAULT): 0-based position p folded into 0..len-1.
RECURSIVE Reflect101(_, _)
Reflect101(p, len) ==
    IF len = 1 THEN 0
    ELSE IF p < 0 THEN Reflect101(-p, len)
    ELSE IF p >= len THEN Reflect101(2 * (len - 1) - p, len)
    ELSE p

\* The 5-tap binomial kernel [1 4 6 4 1] at offsets -2..2.
Kernel(k) == IF Abs(k) = 2 THEN 1 ELSE IF Abs(k) = 1 THEN 4 ELSE 6

\* Weighted sum of the five taps around 0-based position c of the 0-based signal at(_).
Taps(at(_), c) ==
    Kernel(-2) * at(c - 2) + Kernel(-1) * at(c - 1) + Kernel(0) * at(c)
      + Kernel(1) * at(c + 1) + Kernel(2) * at(c + 2)

\* Horizontal pass of cv2.pyrDown: blur with kernel / 16, keep the even columns;
\* width (w + 1) div 2.  The numerators of the result are over 16 * unit.
Down1D(r) ==
    LET w == Len(r)
        at(p) == r[Reflect101(p, w) + 1]
    IN  [x \in 1..((w + 1) \div 2) |-> Taps(at, 2 * (x - 1))]

\* Horizontal pass of cv2.pyrUp to width dw: zeros inserted at the odd columns,
\* blur with kernel / 8.  The numerators of the result are over 8 * unit.
Up1D(r, dw) ==
    LET w == Len(r)
        at(p) == LET q == Reflect101(p, 2 * w)
                 IN  IF q % 2 = 0 THEN r[(q \div 2) + 1] ELSE 0
    IN  [x \in 1..dw |-> Taps(at, x - 1)]

PyrDown(img) == Image((img.h + 1) \div 2, Down1D(img.row), 16 * img.unit)

\* dstsize is (width, height), as cv2 takes it.
PyrUp(img, dstsize) == Image(dstsize[2], Up1D(img.row, dstsize[1]), 8 * img.unit)

\* ----------------------------------------------------------- pyramid_utils
RECURSIVE GaussianLoop(_, _, _)
GaussianLoop(pyramid, image, n) ==
    IF n <= 0 THEN pyramid
    ELSE LET down == PyrDown(image)
         IN  GaussianLoop(Append(pyramid, down), down, n - 1)

build_gaussian_pyramid(image, levels) == GaussianLoop(<<image>>, image, levels - 1)

LaplacianDetail(gaussian_pyramid, i) ==
    LET upsampled == PyrUp(gaussian_pyramid[i + 1],
                           <<Len(gaussian_pyramid[i].row), gaussian_pyramid[i].h>>)
    IN  ImgSub(gaussian_pyramid[i], upsampled)

build_laplacian_pyramid(image, levels) ==
    LET gaussian_pyramid == build_gaussian_pyramid(image, levels)
        laplacian_pyramid == Array([i \in 1..Max(levels - 1, 0) |->
                                        LaplacianDetail(gaussian_pyramid, i)])
    IN  Append(laplacian_pyramid, gaussian_pyramid[Len(gaussian_pyramid)])

ReconstructStep(image, detail) ==
    LET upsampled == PyrUp(image, <<Len(detail.row), detail.h>>)
    IN  ImgAdd(upsampled, detail)

RECURSIVE ReconstructLoop(_, _, _)
ReconstructLoop(pyramid, image, i) ==
    IF i < 1 THEN image
    ELSE ReconstructLoop(pyramid, ReconstructStep(image, pyramid[i]), i - 1)

\* pyramid[-1] of an empty list raises IndexError.
ReconstructRaises(pyramid) == Len(pyramid) = 0

\* The loop started at len(pyramid) - 1: the coarsest level is added to itself.
ReconstructFromLast(pyramid) ==
    ReconstructLoop(pyramid, pyramid[Len(pyramid)], Len(pyramid))

reconstruct_from_laplacian_pyramid(pyramid) ==
    ReconstructLoop(pyramid, pyramid[Len(pyramid)], Len(pyramid) - 1)

\* ------------------------------------------------ temporal_bandpass_filter
\* Frequencies in Hz are rationals <<n, d>>, d > 0.
QInt(n) == <<n, 1>>

QAbs(a) == <<Abs(a[1]), a[2]>>

QLeq(a, b) == a[1] * b[2] <= b[1] * a[2]

\* np.fft.fftfreq(n, d=1/fps)[j], j 0-based: the bins 0..(n-1) div 2 are the
\* non-negative frequencies, the rest are the wrapped (negative) ones.
FftFreq(j, n, fps_) == <<(IF j <= (n - 1) \div 2 THEN j ELSE j - n) * fps_, n>>

\* The mask without np.abs: the wrapped bins are negative and fall outside.
MaskOneSided(j, n, fps_, low, high) ==
    /\ QLeq(low, FftFreq(j, n, fps_))
    /\ QLeq(FftFreq(j, n, fps_), high)

\* mask[j] of line 67: two-sided, by absolute value.
Mask(j, n, fps_, low, high) ==
    /\ QLeq(low, QAbs(FftFreq(j, n, fps_)))
    /\ QLeq(QAbs(FftFreq(j, n, fps_)), high)

\* 2*cos(2*pi*m/n), an integer exactly for n in {1, 2, 3, 4, 6}.
TwoCos(m, n) ==
    CASE n = 1 -> 2
      [] n = 2 -> IF m = 0 THEN 2 ELSE -2
      [] n = 3 -> IF m = 0 THEN 2 ELSE -1
      [] n = 4 -> IF m = 0 THEN 2 ELSE IF m = 2 THEN -2 ELSE 0
      [] n = 6 -> IF m = 0 THEN 2 ELSE IF m = 3 THEN -2
                  ELSE IF m \in {1, 5} THEN 1 ELSE -1

RECURSIVE Sum(_, _)
Sum(f, S) ==
    IF S = {} THEN 0
    ELSE LET e == CHOOSE e \in S : TRUE IN f[e] + Sum(f, S \ {e})

\* 2n times ifft(fft(x) with the bins outside `keep` zeroed).real at 0-based time
\* t, for the real series x (1-based, n numbers):
\*   Re( 1/n * SUM_{j in keep} SUM_s x[s] * e^(-2 pi i j (s - t) / n) )
\*     = 1/(2n) * SUM_{j in keep} SUM_s x[s] * 2cos(2 pi j (s - t) / n).
FilteredSample(x, keep, t) ==
    LET n == Len(x)
        pairs == keep \X (0..(n - 1))
    IN  Sum([p \in pairs |-> TwoCos((p[1] * (p[2] - t + n)) % n, n) * x[p[2] + 1]], pairs)

RECURSIVE CommonUnit(_, _)
CommonUnit(data, t) == IF t > Len(data) THEN 1 ELSE LCM(data[t].unit, CommonUnit(data, t + 1))

temporal_bandpass_filter(data, fps_, low, high) ==
    LET n == Len(data)
        keep == {j \in 0..(n - 1) : Mask(j, n, fps_, low, high)}
        u == CommonUnit(data, 1)
        series(x) == Array([s \in 1..n |-> Over(data[s], u)[x]])
    IN  Array([t \in 1..n |->
            Image(data[t].h,
                  [x \in 1..Len(data[t].row) |-> FilteredSample(series(x), keep, t - 1)],
                  2 * n * u)])

\* ------------------------------------------------------------- cv2.resize
\* Horizontal pass of cv2.resize(..., interpolation=cv2.INTER_LINEAR) to width dw;
\* the numerators of the result are over 2 * dw * unit.
ResizeLinear1D(r, dw) ==
    LET w == Len(r)
        den == 2 * dw
        sample(x) ==
            LET num == (2 * x + 1) * w - dw
                x0 == num \div den
                fr == num - x0 * den
            IN  IF num < 0 THEN den * r[1]
                ELSE IF x0 >= w - 1 THEN den * r[w]
                ELSE (den - fr) * r[x0 + 1] + fr * r[x0 + 2]
    IN  [x \in 1..dw |-> sample(x - 1)]

\* dsize is (width, height).
Resize(img, dsize) ==
    Image(dsize[2], ResizeLinear1D(img.row, dsize[1]), 2 * dsize[1] * img.unit)

\* ------------------------------------------------------------------ state
VARIABLES
    video,                      \* the frames the file decodes to, in order
    fps,                        \* cv2.CAP_PROP_FPS of the file
    max_frames,                 \* parameters of eulerian_magnification
    pyramid_levels,
    low_freq,
    high_freq,
    amplification_factor,
    pc,                         \* the stage the run is in
    frames,                     \* locals of eulerian_magnification
    i,                          \* frames whose pyramid has been stored
    lap_pyramid,
    pyramid_video_t,
    filtered_pyramid_video_t,
    filter_log,                 \* the "Filtering" / "Skipping" line printed per level
    amplified_pyramid_video_t,
    current_frame_pyramid,
    output_frames,
    save_called,                \* save_video was entered
    written,                    \* the frames written to the output file, or None
    ret,                        \* the value returned to the caller
    raised,                     \* the exception that left eulerian_magnification
    console,                    \* the error lines printed: stage and cause
    fault,                      \* the stage that raised, and what it raised
    results,                    \* the files of the results directory, by name
    EVM_AVAILABLE,              \* gui.py: the import of evm succeeded
    input_video_path,           \* fields of MotionMagnificationApp
    output_video_path,
    processing_thread,          \* the ProcessingThread last created, or None
    process_button,             \* isEnabled() of the buttons
    replay_button,
    replay_Originale_button,
    progress_bar,               \* isVisible()
    original_player,            \* source() of the players, None for QUrl()
    magnified_player,
    file_label,
    status_bar,
    threads,                    \* the ProcessingThread objects alive, newest last
    posted                      \* signals queued for the GUI thread, oldest first

vars == <<video, fps, max_frames, pyramid_levels, low_freq, high_freq,
          amplification_factor, pc, frames, i, lap_pyramid, pyramid_video_t,
          filtered_pyramid_video_t, filter_log, amplified_pyramid_video_t,
          current_frame_pyramid, output_frames, save_called, written, ret, raised,
          console, fault, results, EVM_AVAILABLE, input_video_path,
          output_video_path, processing_thread, process_button, replay_button,
          replay_Originale_button, progress_bar, original_player, magnified_player,
          file_label, status_bar, threads, posted>>

\* The application around the pipeline: the window, its threads and their signals.
window == <<EVM_AVAILABLE, input_video_path, output_video_path, processing_thread,
            process_button, replay_button, replay_Originale_button, progress_bar,
            original_player, magnified_player, file_label, status_bar, threads,
            posted>>

params == <<video, fps, max_frames, pyramid_levels, low_freq, high_freq,
            amplification_factor>>

\* Python's None is the empty tuple, a present value x is <<x>>.
None == <<>>

Some(x) == <<x>>

\* gui.py lines 64-165: the window after MotionMagnificationApp.__init__, no thread
\* created and no signal queued.
Constructed ==
    /\ input_video_path = None
    /\ output_video_path = None
    /\ processing_thread = None
    /\ process_button = FALSE
    /\ replay_button = FALSE
    /\ replay_Originale_button = FALSE
    /\ progress_bar = FALSE
    /\ original_player = None
    /\ magnified_player = None
    /\ file_label = "Aucune vidéo sélectionnée"
    /\ status_bar = "Prêt. Sélectionnez un fichier vidéo."
    /\ threads = <<>>
    /\ posted = <<>>

\* What a stage can raise besides its own errors: lines 122-127, 141-146, 169-174.
Errors == {"MemoryError", "Exception"}

num_frames == Len(frames)

\* ----------------------------------------------------------------- inputs
\* Frame contents: stripes, or a bright left half.
FrameRow(kind, w) == [x \in 1..w |-> IF kind = 0 THEN x % 2 ELSE IF 2 * x <= w THEN 1 ELSE 0]

Frame(kind, shape) == Image(shape[1], FrameRow(kind, shape[2]), 1)

\* A video that does not change over time, and one that alternates two frames.
Video(total, shape, flicker) ==
    Array([t \in 1..total |-> Frame(IF flicker THEN t % 2 ELSE 0, shape)])

\* (height, width): level 1 is 3x5 for the first and 5x5 for the second.
VideoShapes == {<<6, 5>>, <<9, 9>>}

Videos == {Video(total, shape, flicker) :
               total \in 0..MaxTotal, shape \in VideoShapes, flicker \in BOOLEAN}

Caps == {None} \cup {Some(n) : n \in 0..MaxCap}

Levels == 0..MaxLevels

\* (low, high) in Hz.
Bands == {<<<<1, 2>>, <<3, 2>>>>, <<QInt(2), QInt(3)>>}

Alphas == {2, 3}

FrameRates == {4}

\* ------------------------------------------------------------- load_video
RECURSIVE LoadLoop(_, _, _)
LoadLoop(loaded, rest, cap) ==
    IF rest = <<>> THEN loaded
    ELSE LET more == Append(loaded, Head(rest))
         IN  IF cap # None /\ Len(more) >= cap[1] THEN more
             ELSE LoadLoop(more, Tail(rest), cap)

load_video(file, cap) == LoadLoop(<<>>, file, cap)

\* ------------------------------------------------------------- save_video
\* np.clip(n / u * 255.0, 0, 255).astype(np.uint8): floor(255 n / u) within 0..255,
\* as 17 * floor(15 n / u) + floor(17 * (15 n mod u) / u).
Denormalize(n, u) ==
    IF n <= 0 THEN 0
    ELSE IF n >= u THEN 255
    ELSE 17 * ((15 * n) \div u) + (17 * ((15 * n) % u)) \div u

Encode(out) ==
    Array([t \in 1..Len(out) |->
        Array([x \in 1..Len(out[t].row) |-> Denormalize(out[t].row[x], out[t].unit)])])

\* cv2.VideoWriter on an existing name replaces the file.  A file is its name, its
\* frames, and `of`: the decoded input its frames were computed from.
WriteFile(dir, name, of, out) ==
    {f \in dir : f.name # name} \cup {[name |-> name, of |-> of, frames |-> out]}

\* Lines 178-179: the name carries the frame limit when max_frames is truthy.
OutputFilename ==
    [levels |-> pyramid_levels, low |-> low_freq, high |-> high_freq,
     amp |-> amplification_factor,
     frame_limit_str |-> IF max_frames # None /\ max_frames[1] # 0 THEN max_frames ELSE <<>>]


\* ------------------------------------------------- eulerian_magnification
Init ==
    /\ video \in Videos
    /\ fps \in FrameRates
    /\ max_frames \in Caps
    /\ pyramid_levels \in Levels
    /\ \E band \in Bands : low_freq = band[1] /\ high_freq = band[2]
    /\ amplification_factor \in Alphas
    /\ pc = "Idle"
    /\ frames = <<>>
    /\ i = 0
    /\ lap_pyramid = <<>>
    /\ pyramid_video_t = <<>>
    /\ filtered_pyramid_video_t = <<>>
    /\ filter_log = <<>>
    /\ amplified_pyramid_video_t = <<>>
    /\ current_frame_pyramid = <<>>
    /\ output_frames = <<>>
    /\ save_called = FALSE
    /\ written = None
    /\ ret = None
    /\ raised = None
    /\ console = <<>>
    /\ fault = None
    /\ results = {}
    /\ EVM_AVAILABLE = TRUE
    /\ Constructed

\* An except clause that prints and falls through to the next stage.
AfterErrorFallThrough(stage) ==
    CASE stage = "loading video" -> "DecomposeAll"
      [] stage = "pyramid building" -> "FilterPerLevel"
      [] stage = "temporal filtering" -> "Amplify"
      [] stage = "reconstruction" -> "Save"

\* An except clause of lines 86-88, 122-127, 141-146, 169-174: print, return None.
AfterError(stage) == "Failed"

Caught(stage, cause) ==
    /\ pc' = AfterError(stage)
    /\ console' = Append(console, [stage |-> stage, cause |-> cause])
    /\ fault' = Some([stage |-> stage, cause |-> cause])
    /\ ret' = None
    /\ raised' = None

\* Lines 83-95.  cap.isOpened() is the environment's answer.
LoadVideo ==
    /\ pc = "Idle"
    /\ \E opened \in BOOLEAN :
         LET loaded == load_video(video, max_frames)
         IN  IF ~opened
             THEN /\ Caught("loading video", "IOError")
                  /\ UNCHANGED frames
             ELSE IF loaded = <<>>
             THEN /\ Caught("loading video", "ValueError")
                  /\ UNCHANGED frames
             ELSE /\ frames' = loaded
                  /\ pc' = "DecomposeAll"
                  /\ UNCHANGED <<console, fault, ret, raised>>
    /\ UNCHANGED <<window, results, params, i, lap_pyramid, pyramid_video_t, filtered_pyramid_video_t,
                   filter_log, amplified_pyramid_video_t, current_frame_pyramid,
                   output_frames, save_called, written>>

\* The loop left one frame early.
BuildLoopDoneEarly(stored, n) == stored >= n - 1

\* The for loop of line 101 is over once every frame has been visited.
BuildLoopDone(stored, n) == stored >= n

\* Lines 108-118: the level goes into time slot t, resized when its shape differs.
StoreLevel(volume, t, level_data) ==
    [volume EXCEPT ![t] =
        IF Shape(level_data) = Shape(volume[t]) THEN level_data
        ELSE Resize(level_data, <<Len(volume[t].row), volume[t].h>>)]

\* Lines 101-121, one iteration: frame i (0-based).
DecomposeFrame ==
    /\ pc = "DecomposeAll"
    /\ i < num_frames
    /\ LET pyr == build_laplacian_pyramid(frames[i + 1], pyramid_levels)
           storage == IF i = 0
                      THEN Array([k \in 1..Len(pyr) |->
                                     Array([t \in 1..num_frames |-> ZerosLike(pyr[k])])])
                      ELSE pyramid_video_t
       IN  /\ lap_pyramid' = pyr
           /\ pyramid_video_t' =
                  Array([k \in 1..Len(pyr) |-> StoreLevel(storage[k], i + 1, pyr[k])])
    /\ i' = i + 1
    /\ pc' = IF BuildLoopDone(i + 1, num_frames) THEN "FilterPerLevel" ELSE "DecomposeAll"
    /\ UNCHANGED <<window, results, params, frames, filtered_pyramid_video_t, filter_log,
                   amplified_pyramid_video_t, current_frame_pyramid, output_frames,
                   save_called, written, ret, raised, console, fault>>

\* Lines 122-127.
DecomposeFail ==
    /\ pc = "DecomposeAll"
    /\ i < num_frames
    /\ \E e \in Errors : Caught("pyramid building", e)
    /\ UNCHANGED <<window, results, params, frames, i, lap_pyramid, pyramid_video_t,
                   filtered_pyramid_video_t, filter_log, amplified_pyramid_video_t,
                   current_frame_pyramid, output_frames, save_called, written>>

\* The test without `level_idx < pyramid_levels - 1`.
ShouldFilterBySizeOnly(level_idx, levels, level_video) == MinDim(level_video[1]) > 4

\* Line 134, level_idx 0-based.
ShouldFilter(level_idx, levels, level_video) ==
    level_idx < levels - 1 /\ MinDim(level_video[1]) > 4

\* Lines 132-140, one iteration: level Len(filtered_pyramid_video_t) (0-based).
FilterLevel ==
    /\ pc = "FilterPerLevel"
    /\ LET level_idx == Len(filtered_pyramid_video_t)
           level_video == pyramid_video_t[level_idx + 1]
       IN  /\ level_idx < Len(pyramid_video_t)
           /\ IF ShouldFilter(level_idx, pyramid_levels, level_video)
              THEN /\ filtered_pyramid_video_t' =
                         Append(filtered_pyramid_video_t,
                                temporal_bandpass_filter(level_video, fps, low_freq, high_freq))
                   /\ filter_log' = Append(filter_log, "Filtering")
              ELSE /\ filtered_pyramid_video_t' =
                         Append(filtered_pyramid_video_t,
                                Array([t \in 1..Len(level_video) |->
                                           ZerosLike(level_video[t])]))
                   /\ filter_log' = Append(filter_log, "Skipping")
           /\ pc' = IF level_idx + 1 >= Len(pyramid_video_t) THEN "Amplify"
                    ELSE "FilterPerLevel"
    /\ UNCHANGED <<window, results, params, frames, i, lap_pyramid, pyramid_video_t,
                   amplified_pyramid_video_t, current_frame_pyramid, output_frames,
                   save_called, written, ret, raised, console, fault>>

\* Lines 141-146.
FilterFail ==
    /\ pc = "FilterPerLevel"
    /\ \E e \in Errors : Caught("temporal filtering", e)
    /\ UNCHANGED <<window, results, params, frames, i, lap_pyramid, pyramid_video_t,
                   filtered_pyramid_video_t, filter_log, amplified_pyramid_video_t,
                   current_frame_pyramid, output_frames, save_called, written>>


\* Line 150: every filtered level times the factor, as new arrays.
Amplify ==
    /\ pc = "Amplify"
    /\ amplified_pyramid_video_t' =
           Array([k \in 1..Len(filtered_pyramid_video_t) |->
               Array([t \in 1..Len(filtered_pyramid_video_t[k]) |->
                   ImgScale(amplification_factor, filtered_pyramid_video_t[k][t])])])
    /\ pc' = "ReconstructAll"
    /\ UNCHANGED <<window, results, params, frames, i, lap_pyramid, pyramid_video_t,
                   filtered_pyramid_video_t, filter_log, current_frame_pyramid,
                   output_frames, save_called, written, ret, raised, console, fault>>

\* Line 150 is inside no try block: what it raises leaves the function.
AmplifyFail ==
    /\ pc = "Amplify"
    /\ \E e \in Errors :
         /\ raised' = Some(e)
         /\ fault' = Some([stage |-> "amplification", cause |-> e])
    /\ pc' = "Failed"
    /\ UNCHANGED <<window, results, params, frames, i, lap_pyramid, pyramid_video_t,
                   filtered_pyramid_video_t, filter_log, amplified_pyramid_video_t,
                   current_frame_pyramid, output_frames, save_called, written, ret,
                   console>>

\* Lines 158-163: the per-frame pyramid of frame t (1-based).
Recombine(t) ==
    Array([k \in 1..Max(pyramid_levels, 0) |->
        ImgAdd(pyramid_video_t[k][t], amplified_pyramid_video_t[k][t])])

\* `original_level += amplified_signal`: the sum lands in pyramid_video_t.
VolumesAfterInPlaceAdd(volumes, t, pyramid) ==
    Array([k \in 1..Len(volumes) |->
        IF k <= Len(pyramid) THEN [volumes[k] EXCEPT ![t] = pyramid[k]] ELSE volumes[k]])

\* Line 163: `original_level + amplified_signal` allocates its sum; the view
\* original_level of pyramid_video_t is only read.
VolumesAfterRecombine(volumes, t, pyramid) == volumes

\* Lines 156-167, one iteration: frame Len(output_frames) (0-based).
ReconstructFrame ==
    /\ pc = "ReconstructAll"
    /\ Len(output_frames) < num_frames
    /\ LET t == Len(output_frames) + 1
           pyramid == Recombine(t)
       IN  /\ current_frame_pyramid' = pyramid
           /\ pyramid_video_t' = VolumesAfterRecombine(pyramid_video_t, t, pyramid)
           /\ IF ReconstructRaises(pyramid)
              THEN /\ Caught("reconstruction", "IndexError")
                   /\ UNCHANGED output_frames
              ELSE /\ output_frames' =
                         Append(output_frames, reconstruct_from_laplacian_pyramid(pyramid))
                   /\ pc' = IF t >= num_frames THEN "Save" ELSE "ReconstructAll"
                   /\ UNCHANGED <<ret, raised, console, fault>>
    /\ UNCHANGED <<window, results, params, frames, i, lap_pyramid, filtered_pyramid_video_t, filter_log,
                   amplified_pyramid_video_t, save_called, written>>

\* Lines 169-174.
ReconstructFail ==
    /\ pc = "ReconstructAll"
    /\ Len(output_frames) < num_frames
    /\ \E e \in Errors : Caught("reconstruction", e)
    /\ UNCHANGED <<window, results, params, frames, i, lap_pyramid, pyramid_video_t,
                   filtered_pyramid_video_t, filter_log, amplified_pyramid_video_t,
                   current_frame_pyramid, output_frames, save_called, written>>

\* Lines 176-183 with save_video (lines 42-58).  out.isOpened() is the environment's
\* answer; save_video returns nothing either way, and the name is returned.
SaveVideo ==
    /\ pc = "Save"
    /\ save_called' = TRUE
    /\ \E opened \in BOOLEAN :
         IF opened
         THEN /\ written' = Some(Encode(output_frames))
              /\ results' = WriteFile(results, OutputFilename, video,
                                      Encode(output_frames))
              /\ UNCHANGED console
         ELSE /\ written' = None
              /\ console' = Append(console, [stage |-> "saving video",
                                             cause |-> "Could not open video writer"])
              /\ UNCHANGED results
    /\ ret' = Some(OutputFilename)
    /\ pc' = "Done"
    /\ UNCHANGED <<window, params, frames, i, lap_pyramid, pyramid_video_t,
                   filtered_pyramid_video_t, filter_log, amplified_pyramid_video_t,
                   current_frame_pyramid, output_frames, raised, fault>>

Next ==
    \/ LoadVideo
    \/ DecomposeFrame
    \/ DecomposeFail
    \/ FilterLevel
    \/ FilterFail
    \/ Amplify
    \/ AmplifyFail
    \/ ReconstructFrame
    \/ ReconstructFail
    \/ SaveVideo

Spec == Init /\ [][Next]_vars


\* ---------------------------------------------- the pyramid functions alone
\* One frame is decomposed by build_laplacian_pyramid and put together again by
\* reconstruct_from_laplacian_pyramid; the other locals stay as constructed.
Idle(stage) ==
    /\ fps \in FrameRates
    /\ max_frames = None
    /\ amplification_factor \in {2}
    /\ pc = stage
    /\ i = 0
    /\ filter_log = <<>>
    /\ amplified_pyramid_video_t = <<>>
    /\ current_frame_pyramid = <<>>
    /\ output_frames = <<>>
    /\ save_called = FALSE
    /\ written = None
    /\ ret = None
    /\ raised = None
    /\ console = <<>>
    /\ fault = None
    /\ results = {}
    /\ EVM_AVAILABLE = TRUE
    /\ Constructed

\* Ramps as well, in every shape up to MaxWidth wide.
PyramidImages ==
    {Frame(kind, <<h, w>>) : kind \in {0, 1}, h \in {1, 5}, w \in 1..MaxWidth}
      \cup {Image(h, [x \in 1..w |-> x], w) : h \in {1, 5}, w \in 1..MaxWidth}

InitPyramid ==
    /\ Idle("pyramid_build")
    /\ \E image \in PyramidImages : video = <<image>>
    /\ frames = video
    /\ pyramid_levels \in (-1)..MaxLevels
    /\ low_freq = QInt(0)
    /\ high_freq = QInt(0)
    /\ lap_pyramid = <<>>
    /\ pyramid_video_t = <<>>
    /\ filtered_pyramid_video_t = <<>>

BuildPyramid ==
    /\ pc = "pyramid_build"
    /\ lap_pyramid' = build_laplacian_pyramid(frames[1], pyramid_levels)
    /\ pc' = "pyramid_reconstruct"
    /\ UNCHANGED <<window, results, params, frames, i, pyramid_video_t, filtered_pyramid_video_t,
                   filter_log, amplified_pyramid_video_t, current_frame_pyramid,
                   output_frames, save_called, written, ret, raised, console, fault>>

ReconstructPyramid ==
    /\ pc = "pyramid_reconstruct"
    /\ ~ReconstructRaises(lap_pyramid)
    /\ output_frames' = <<reconstruct_from_laplacian_pyramid(lap_pyramid)>>
    /\ pc' = "pyramid_done"
    /\ UNCHANGED <<window, results, params, frames, i, lap_pyramid, pyramid_video_t,
                   filtered_pyramid_video_t, filter_log, amplified_pyramid_video_t,
                   current_frame_pyramid, save_called, written, ret, raised, console,
                   fault>>

NextPyramid == BuildPyramid \/ ReconstructPyramid

SpecPyramid == InitPyramid /\ [][NextPyramid]_vars

\* ------------------------------------------------------- the filter alone
\* amp * 2cos(2 pi j t / n), t = 0..n-1: the real series whose spectrum is in the
\* bins j and n - j only (bin 0: the series constant over time).
Tone(j, n, amp) == [t \in 1..n |-> amp * TwoCos((j * (t - 1)) % n, n)]

\* A volume of n frames of shape 1x2: the first pixel carries the constant 2 * dc
\* plus the tone j1, the second three times the tone j2.
ToneVolume(n, dc, j1, j2) ==
    Array([t \in 1..n |->
        Image(1, <<Tone(0, n, dc)[t] + Tone(j1, n, 1)[t], Tone(j2, n, 3)[t]>>, 1)])

FilterRates == {2, 3, 4}

FilterBands == {<<QInt(0), QInt(1)>>, <<<<1, 2>>, QInt(1)>>, <<QInt(1), QInt(2)>>,
                <<<<3, 2>>, QInt(2)>>}

InitFilter ==
    /\ Idle("filter_apply")
    /\ fps \in FilterRates
    /\ \E band \in FilterBands : low_freq = band[1] /\ high_freq = band[2]
    /\ \E n \in 1..MaxTotal : \E dc \in 0..1 : \E j1, j2 \in 0..(n - 1) :
         pyramid_video_t = <<ToneVolume(n, dc, j1, j2)>>
    /\ video = <<>>
    /\ frames = <<>>
    /\ pyramid_levels = 2
    /\ lap_pyramid = <<>>
    /\ filtered_pyramid_video_t = <<>>

ApplyFilter ==
    /\ pc = "filter_apply"
    /\ filtered_pyramid_video_t' =
           <<temporal_bandpass_filter(pyramid_video_t[1], fps, low_freq, high_freq)>>
    /\ pc' = "filter_done"
    /\ UNCHANGED <<window, results, params, frames, i, lap_pyramid, pyramid_video_t, filter_log,
                   amplified_pyramid_video_t, current_frame_pyramid, output_frames,
                   save_called, written, ret, raised, console, fault>>

NextFilter == ApplyFilter

SpecFilter == InitFilter /\ [][NextFilter]_vars


\* ----------------------------------------------------------------- gui.py
\* The videos the file dialog offers, and what they decode to.
Files == {"a.mp4", "b.mp4"}

FileContent(path) ==
    IF path = "a.mp4" THEN Video(2, <<6, 5>>, TRUE) ELSE Video(2, <<9, 9>>, FALSE)

\* Two of the values 2..8 of levels_spin (line 95).
LevelsSpin == {2, 3}

\* A run of ProcessingThread.run emits at most this many signals.
SignalsPerRun == 3

\* Values of low_freq_spin and high_freq_spin (lines 96-99), of alpha_spin (100-101).
FreqSpins == {<<<<1, 2>>, <<3, 2>>>>}

AlphaSpin == {2}

\* QThread.isRunning(): from start() until run() has returned.
isRunningNever(t) == FALSE

isRunning(t) == threads[t].state # "finished"

\* Line 211 rebinds processing_thread: the object it named stays alive only while
\* its thread runs.
StillRunning(objects) ==
    LET Alive(th) == th.state # "finished" IN SelectSeq(objects, Alive)

\* Signal.emit towards an object of the GUI thread: a queued call.
Emit(queue, signal, args) == Append(queue, [signal |-> signal, args |-> args])

\* Lines 167-182, the dialog accepted with `path`; a cancelled dialog changes nothing.
select_video_file(path) ==
    /\ input_video_path' = Some(path)
    /\ file_label' = path
    /\ status_bar' = "Vidéo sélectionnée"
    /\ process_button' = TRUE
    /\ original_player' = Some(path)
    /\ replay_Originale_button' = TRUE
    /\ magnified_player' = None
    /\ output_video_path' = None
    /\ UNCHANGED <<EVM_AVAILABLE, processing_thread, replay_button, progress_bar,
                   threads, posted, results, params, pc, frames, i, lap_pyramid,
                   pyramid_video_t, filtered_pyramid_video_t, filter_log,
                   amplified_pyramid_video_t, current_frame_pyramid, output_frames,
                   save_called, written, ret, raised, console, fault>>

\* Lines 184-214: a click on process_button, which only an enabled button delivers.
start_processing ==
    /\ process_button
    /\ replay_Originale_button' = FALSE
    /\ replay_button' = FALSE
    /\ IF input_video_path = None
       THEN UNCHANGED <<process_button, progress_bar, status_bar, threads,
                        processing_thread>>
       ELSE IF processing_thread # None /\ isRunning(processing_thread[1])
       THEN UNCHANGED <<process_button, progress_bar, status_bar, threads,
                        processing_thread>>
       ELSE /\ Len(posted) + SignalsPerRun <= MaxPosted
            /\ process_button' = FALSE
            /\ progress_bar' = TRUE
            /\ status_bar' = "Traitement en cours..."
            /\ \E levels \in LevelsSpin, band \in FreqSpins, alpha \in AlphaSpin :
                 threads' = Append(StillRunning(threads),
                     [input_file |-> input_video_path[1],
                      params |-> [levels |-> levels, low_freq |-> band[1],
                                  high_freq |-> band[2], alpha |-> alpha],
                      state |-> "started",
                      emitted |-> <<>>])
            /\ processing_thread' = Some(Len(threads'))
    /\ UNCHANGED <<EVM_AVAILABLE, input_video_path, output_video_path, original_player,
                   magnified_player, file_label, posted, results, params, pc, frames,
                   i, lap_pyramid, pyramid_video_t, filtered_pyramid_video_t,
                   filter_log, amplified_pyramid_video_t, current_frame_pyramid,
                   output_frames, save_called, written, ret, raised, console, fault>>

\* No call of eulerian_magnification is in progress: it has no locals.
NotCalled ==
    /\ video = <<>>
    /\ fps = 0
    /\ max_frames = None
    /\ pyramid_levels = 0
    /\ low_freq = QInt(0)
    /\ high_freq = QInt(0)
    /\ amplification_factor = 0
    /\ pc = "NotCalled"
    /\ frames = <<>>
    /\ i = 0
    /\ lap_pyramid = <<>>
    /\ pyramid_video_t = <<>>
    /\ filtered_pyramid_video_t = <<>>
    /\ filter_log = <<>>
    /\ amplified_pyramid_video_t = <<>>
    /\ current_frame_pyramid = <<>>
    /\ output_frames = <<>>
    /\ save_called = FALSE
    /\ written = None
    /\ ret = None
    /\ raised = None
    /\ console = <<>>
    /\ fault = None

\* The call is over: line 42 has returned or raised.
CallOver ==
    /\ video' = <<>>
    /\ fps' = 0
    /\ max_frames' = None
    /\ pyramid_levels' = 0
    /\ low_freq' = QInt(0)
    /\ high_freq' = QInt(0)
    /\ amplification_factor' = 0
    /\ pc' = "NotCalled"
    /\ frames' = <<>>
    /\ i' = 0
    /\ lap_pyramid' = <<>>
    /\ pyramid_video_t' = <<>>
    /\ filtered_pyramid_video_t' = <<>>
    /\ filter_log' = <<>>
    /\ amplified_pyramid_video_t' = <<>>
    /\ current_frame_pyramid' = <<>>
    /\ output_frames' = <<>>
    /\ save_called' = FALSE
    /\ written' = None
    /\ ret' = None
    /\ raised' = None
    /\ console' = <<>>
    /\ fault' = None

\* self.finished.emit(output_path, error_message) in thread t, then what is left of
\* run().
EmitFinished(t, before, output_path, error_message) ==
    /\ posted' = Emit(before, "finished", <<output_path, error_message>>)
    /\ threads' = [threads EXCEPT
                      ![t].state = "emitted",
                      ![t].emitted = Append(@, <<output_path, error_message>>)]

\* Lines 35-49: run() up to the call of eulerian_magnification, whose max_frames
\* keeps its default.
RunEnter(t) ==
    /\ threads[t].state = "started"
    /\ IF ~EVM_AVAILABLE
       THEN /\ EmitFinished(t, posted, None, Some("Le backend EVM n'est pas disponible."))
            /\ UNCHANGED <<params, pc, frames, i, lap_pyramid, pyramid_video_t,
                           filtered_pyramid_video_t, filter_log,
                           amplified_pyramid_video_t, current_frame_pyramid,
                           output_frames, save_called, written, ret, raised, console,
                           fault>>
       ELSE /\ posted' = Emit(posted, "status_update", "Démarrage du traitement EVM...")
            /\ threads' = [threads EXCEPT ![t].state = "calling"]
            /\ video' = FileContent(threads[t].input_file)
            /\ fps' \in FrameRates
            /\ max_frames' = None
            /\ pyramid_levels' = threads[t].params.levels
            /\ low_freq' = threads[t].params.low_freq
            /\ high_freq' = threads[t].params.high_freq
            /\ amplification_factor' = threads[t].params.alpha
            /\ pc' = "Idle"
            /\ frames' = <<>>
            /\ i' = 0
            /\ lap_pyramid' = <<>>
            /\ pyramid_video_t' = <<>>
            /\ filtered_pyramid_video_t' = <<>>
            /\ filter_log' = <<>>
            /\ amplified_pyramid_video_t' = <<>>
            /\ current_frame_pyramid' = <<>>
            /\ output_frames' = <<>>
            /\ save_called' = FALSE
            /\ written' = None
            /\ ret' = None
            /\ raised' = None
            /\ console' = <<>>
            /\ fault' = None
    /\ UNCHANGED <<EVM_AVAILABLE, input_video_path, output_video_path,
                   processing_thread, process_button, replay_button,
                   replay_Originale_button, progress_bar, original_player,
                   magnified_player, file_label, status_bar, results>>

\* Line 42: the call, one step of eulerian_magnification at a time.
RunCall ==
    /\ \E t \in 1..Len(threads) : threads[t].state = "calling"
    /\ Next

\* Lines 51-61: the call has returned or raised, and its locals are gone.
RunEmit(t) ==
    /\ threads[t].state = "calling"
    /\ pc \in {"Done", "Failed"}
    /\ IF raised # None
       THEN EmitFinished(t, Emit(posted, "status_update", "Erreur durant le traitement"),
                         None, Some("Erreur durant le traitement"))
       ELSE IF ret # None
       THEN EmitFinished(t, Emit(posted, "status_update", "Traitement terminé"),
                         ret, None)
       ELSE EmitFinished(t, posted, None,
                         Some("Le traitement n'a pas pu produire de fichier de sortie."))
    /\ CallOver
    /\ UNCHANGED <<EVM_AVAILABLE, input_video_path, output_video_path,
                   processing_thread, process_button, replay_button,
                   replay_Originale_button, progress_bar, original_player,
                   magnified_player, file_label, status_bar, results>>

\* run() returns: the thread is no longer running.
RunReturn(t) ==
    /\ threads[t].state = "emitted"
    /\ threads' = [threads EXCEPT ![t].state = "finished"]
    /\ UNCHANGED <<EVM_AVAILABLE, input_video_path, output_video_path,
                   processing_thread, process_button, replay_button,
                   replay_Originale_button, progress_bar, original_player,
                   magnified_player, file_label, status_bar, posted, results, params,
                   pc, frames, i, lap_pyramid, pyramid_video_t,
                   filtered_pyramid_video_t, filter_log, amplified_pyramid_video_t,
                   current_frame_pyramid, output_frames, save_called, written, ret,
                   raised, console, fault>>

\* Line 212: status_update is connected to status_bar.showMessage.
showMessage ==
    /\ posted # <<>>
    /\ Head(posted).signal = "status_update"
    /\ status_bar' = Head(posted).args
    /\ posted' = Tail(posted)
    /\ UNCHANGED <<EVM_AVAILABLE, input_video_path, output_video_path,
                   processing_thread, process_button, replay_button,
                   replay_Originale_button, progress_bar, original_player,
                   magnified_player, file_label, threads, results, params, pc, frames,
                   i, lap_pyramid, pyramid_video_t, filtered_pyramid_video_t,
                   filter_log, amplified_pyramid_video_t, current_frame_pyramid,
                   output_frames, save_called, written, ret, raised, console, fault>>

\* Lines 216-232, on the oldest queued finished signal.
on_processing_finished ==
    /\ posted # <<>>
    /\ Head(posted).signal = "finished"
    /\ posted' = Tail(posted)
    /\ process_button' = TRUE
    /\ progress_bar' = FALSE
    /\ LET output_path == Head(posted).args[1]
           error_message == Head(posted).args[2]
       IN  IF error_message # None
           THEN /\ status_bar' = "Le traitement a échoué"
                /\ UNCHANGED <<output_video_path, magnified_player, replay_button,
                               replay_Originale_button>>
           ELSE IF output_path # None
           THEN /\ output_video_path' = output_path
                /\ status_bar' = "Traitement terminé"
                /\ magnified_player' = output_path
                /\ replay_button' = TRUE
                /\ replay_Originale_button' = TRUE
           ELSE /\ status_bar' = "Le traitement s'est terminé, mais aucun fichier"
                /\ UNCHANGED <<output_video_path, magnified_player, replay_button,
                               replay_Originale_button>>
    /\ UNCHANGED <<EVM_AVAILABLE, input_video_path, processing_thread, original_player,
                   file_label, threads, results, params, pc, frames, i, lap_pyramid,
                   pyramid_video_t, filtered_pyramid_video_t, filter_log,
                   amplified_pyramid_video_t, current_frame_pyramid, output_frames,
                   save_called, written, ret, raised, console, fault>>

\* The window as constructed, the import of evm having succeeded or not, and no call
\* of eulerian_magnification made yet.
InitGui ==
    /\ Constructed
    /\ EVM_AVAILABLE \in BOOLEAN
    /\ results = {}
    /\ NotCalled

NextGui ==
    \/ \E path \in Files : select_video_file(path)
    \/ start_processing
    \/ \E t \in 1..Len(threads) : RunEnter(t)
    \/ RunCall
    \/ \E t \in 1..Len(threads) : RunEmit(t)
    \/ \E t \in 1..Len(threads) : RunReturn(t)
    \/ showMessage
    \/ on_processing_finished

SpecGui == InitGui /\ [][NextGui]_vars


\* ================================================================ properties
Last(seq) == seq[Len(seq)]

PipelineStages == {"pyramid building", "temporal filtering", "amplification",
                   "reconstruction"}

\* What a stage that raised leaves behind: nothing of any later stage.
LaterStagesUntouched(stage) ==
    CASE stage = "loading video" ->
             /\ frames = <<>> /\ i = 0 /\ pyramid_video_t = <<>>
             /\ filter_log = <<>> /\ filtered_pyramid_video_t = <<>>
             /\ amplified_pyramid_video_t = <<>> /\ output_frames = <<>>
      [] stage = "pyramid building" ->
             /\ filter_log = <<>> /\ filtered_pyramid_video_t = <<>>
             /\ amplified_pyramid_video_t = <<>> /\ output_frames = <<>>
      [] stage = "temporal filtering" ->
             amplified_pyramid_video_t = <<>> /\ output_frames = <<>>
      [] stage = "amplification" ->
             /\ amplified_pyramid_video_t = <<>> /\ current_frame_pyramid = <<>>
             /\ output_frames = <<>>
      [] stage = "reconstruction" -> TRUE

Aborted ==
    /\ pc = "Failed"
    /\ LaterStagesUntouched(fault[1].stage)
    /\ ~save_called
    /\ written = None
    /\ ret = None

\* What reaches the caller of eulerian_magnification besides the return value: the
\* exception that left the function, which carries its cause and no stage name.
CallerReceives ==
    IF raised # None THEN {[stage |-> "", cause |-> raised[1]]} ELSE {}

StageRank(stage) ==
    CASE stage = "Idle" -> 0
      [] stage = "DecomposeAll" -> 1
      [] stage = "FilterPerLevel" -> 2
      [] stage = "Amplify" -> 3
      [] stage = "ReconstructAll" -> 4
      [] stage = "Save" -> 5
      [] stage \in {"Done", "Failed"} -> 6

FilteringBegun == pc = "FilterPerLevel" \/ filter_log # <<>>

ReconstructionBegun ==
    pc = "ReconstructAll" \/ current_frame_pyramid # <<>> \/ output_frames # <<>>

StagesInOrder ==
    /\ FilteringBegun =>
           /\ i = num_frames
           /\ \A k \in 1..Len(pyramid_video_t) : \A t \in 1..num_frames :
                  pyramid_video_t[k][t] = build_laplacian_pyramid(frames[t], pyramid_levels)[k]
    /\ ReconstructionBegun =>
           /\ Len(filter_log) = Len(pyramid_video_t)
           /\ Len(filtered_pyramid_video_t) = Len(pyramid_video_t)
           /\ Len(amplified_pyramid_video_t) = Len(pyramid_video_t)
    /\ (pc \in {"Save", "Done"}) => Len(output_frames) = num_frames

\* C2: the stages run in the order DecomposeAll, FilterPerLevel, Amplify and
\* reconstruct, Done: filtering begins only once every frame's levels are in the
\* temporal volumes, reconstruction only once every level is filtered (or skipped)
\* and amplified, and no step goes back to an earlier stage.
C2_StrictStageOrder ==
    /\ []StagesInOrder
    /\ [][StageRank(pc') >= StageRank(pc)]_vars

C2_Witness ==
    /\ pc = "Done"
    /\ num_frames >= 3
    /\ pyramid_levels >= 2

ExpectedFrameCount ==
    IF max_frames = None THEN Len(video) ELSE Min(Len(video), max_frames[1])

\* C3: a successful run hands the encoder min(total, max_frames) frames (total
\* without a cap), and output frame t is reconstructed from input frame t.
C3_FrameCountConserved ==
    pc = "Done" =>
        /\ Len(output_frames) = ExpectedFrameCount
        /\ \A t \in 1..Len(output_frames) :
               /\ \A k \in 1..Len(pyramid_video_t) :
                      pyramid_video_t[k][t] =
                          build_laplacian_pyramid(video[t], pyramid_levels)[k]
               /\ output_frames[t] = reconstruct_from_laplacian_pyramid(Recombine(t))

Excluded(k) == k = pyramid_levels - 1 \/ MinDim(pyramid_video_t[k + 1][1]) <= 4

\* C4: level k (0-based, below pyramid_levels) is skipped exactly when it is the
\* coarsest or its smaller dimension is at most 4; a skipped level contributes
\* zero and reaches reconstruction unchanged; any other level is band-passed and
\* scaled by the amplification factor.
C4_SkipHeuristic ==
    \A k \in 0..(pyramid_levels - 1) :
        k < Len(filter_log) =>
            /\ (filter_log[k + 1] = "Skipping") <=> Excluded(k)
            /\ Excluded(k) =>
                   \A t \in 1..num_frames :
                       /\ filtered_pyramid_video_t[k + 1][t] = ZerosLike(pyramid_video_t[k + 1][t])
                       /\ amplified_pyramid_video_t # <<>> =>
                              amplified_pyramid_video_t[k + 1][t] =
                                  ZerosLike(pyramid_video_t[k + 1][t])
            /\ (Excluded(k) /\ output_frames # <<>>) =>
                   current_frame_pyramid[k + 1] = pyramid_video_t[k + 1][Len(output_frames)]
            /\ ~Excluded(k) =>
                   /\ filtered_pyramid_video_t[k + 1] =
                          temporal_bandpass_filter(pyramid_video_t[k + 1], fps, low_freq,
                                                   high_freq)
                   /\ amplified_pyramid_video_t # <<>> =>
                          \A t \in 1..num_frames :
                              amplified_pyramid_video_t[k + 1][t] =
                                  ImgScale(amplification_factor,
                                           filtered_pyramid_video_t[k + 1][t])

\* A level skipped for its size alone, next to a filtered one whose band is not empty.
C4_Witness ==
    /\ pc = "Done"
    /\ filter_log = <<"Filtering", "Skipping", "Skipping">>
    /\ \E t \in 1..num_frames :
           amplified_pyramid_video_t[1][t] # ZerosLike(pyramid_video_t[1][t])


\* C5: for levels >= 2 the reconstruction of the Laplacian pyramid of a frame is the
\* frame, and the accumulator after the detail of level m has been added is the
\* Gaussian level m (the reconstruction of the levels m.. alone).
C5_RoundTrip ==
    (pc = "pyramid_done" /\ pyramid_levels >= 2) =>
        /\ output_frames[1] = frames[1]
        /\ \A m \in 1..Len(lap_pyramid) :
               reconstruct_from_laplacian_pyramid(SubSeq(lap_pyramid, m, Len(lap_pyramid)))
                   = build_gaussian_pyramid(frames[1], pyramid_levels)[m]

\* Three levels of an odd-sized frame, with detail at the finest level.
C5_Witness ==
    /\ pc = "pyramid_done"
    /\ pyramid_levels >= 3
    /\ Len(frames[1].row) = 5
    /\ lap_pyramid[1] # ZerosLike(frames[1])

\* |f_j| of bin j of n: j * fps / n below the middle, (n - j) * fps / n above it.
BinFrequency(j, n) == <<Min(j, n - j) * fps, n>>

InBand(j, n) == QLeq(low_freq, BinFrequency(j, n)) /\ QLeq(BinFrequency(j, n), high_freq)

Kept(j, n, value) == IF InBand(j, n) THEN value ELSE 0

\* What the claim leaves of ToneVolume(n, dc, j1, j2).
ExpectedVolume(n, dc, j1, j2) ==
    Array([t \in 1..n |->
        Image(1, <<Kept(0, n, Tone(0, n, dc)[t]) + Kept(j1, n, Tone(j1, n, 1)[t]),
                   Kept(j2, n, Tone(j2, n, 3)[t])>>, 1)])

\* C6: the filter keeps the bins whose absolute frequency is within
\* [low_freq, high_freq] and zeroes every other bin, for each pixel alike: a tone
\* in the band comes out as it went in, a tone outside it comes out zero, and the
\* constant part is removed whenever low_freq > 0.
C6_BandpassMask ==
    pc = "filter_done" =>
        LET data == pyramid_video_t[1]
            n == Len(data)
        IN  \A dc \in 0..1 : \A j1, j2 \in 0..(n - 1) :
                data = ToneVolume(n, dc, j1, j2) =>
                    filtered_pyramid_video_t[1] = ExpectedVolume(n, dc, j1, j2)

\* A constant removed from under a wrapped bin that is kept.
C6_Witness ==
    /\ pc = "filter_done"
    /\ low_freq[1] > 0
    /\ LET data == pyramid_video_t[1]
           n == Len(data)
       IN  \E j \in 1..(n - 1) :
               /\ 2 * j >= n
               /\ data = ToneVolume(n, 1, j, j)
               /\ filtered_pyramid_video_t[1] = ToneVolume(n, 0, j, j)

\* C7 as stated: build_laplacian_pyramid returns a pyramid only for levels >= 1, and
\* then one of exactly `levels` entries.
C7_InvalidLevelCountRejected ==
    pc \in {"pyramid_reconstruct", "pyramid_done"} =>
        /\ pyramid_levels >= 1
        /\ Len(lap_pyramid) = pyramid_levels

\* C8 as stated: the filter does not run on fewer than two frames, and a run on a
\* single-frame video does not end in Done.
C8_InsufficientFramesRejected ==
    /\ \A k \in 1..Len(filter_log) : filter_log[k] = "Filtering" => num_frames >= 2
    /\ pc = "Done" => num_frames >= 2

\* C9: once the temporal volumes are assembled, no step changes them.
C9_VolumesNeverModified ==
    [][pc \notin {"Idle", "DecomposeAll"} => pyramid_video_t' = pyramid_video_t]_vars

\* A finished run in which something was added to a level.
C9_Witness ==
    /\ pc = "Done"
    /\ \E k \in 1..Len(amplified_pyramid_video_t) : \E t \in 1..num_frames :
           current_frame_pyramid # <<>> /\ t = num_frames
             /\ current_frame_pyramid[k] # pyramid_video_t[k][t]

\* C10 as stated: a file name is returned only if the file was written.
C10_ReturnImpliesWritten == ret # None => written # None

\* The threads whose run() has not returned.
Running == {t \in 1..Len(threads) : threads[t].state # "finished"}

\* A ProcessingThread is created and started in this step.
ThreadStarted ==
    /\ threads' # <<>>
    /\ Last(threads').state = "started"
    /\ Len(threads) < Len(threads') \/ threads[Len(threads')].state # "started"

\* Before its emission a run has emitted nothing, after it exactly one finished signal,
\* which carries exactly one of output_path and error_message.
EmittedOnce(th) ==
    /\ Len(th.emitted) = IF th.state \in {"emitted", "finished"} THEN 1 ELSE 0
    /\ \A k \in 1..Len(th.emitted) :
         (th.emitted[k][1] = None) # (th.emitted[k][2] = None)

\* C11: whatever the interleaving of select_video_file, start_processing and thread
\* completion, at most one ProcessingThread is running at any time, start_processing
\* never creates or starts a thread while the previous one is still running, and each
\* thread emits its finished signal exactly once, with exactly one of output_path and
\* error_message not None.
C11_SingleProcessingThread ==
    /\ [](/\ Cardinality(Running) <= 1
          /\ \A t \in 1..Len(threads) : EmittedOnce(threads[t]))
    /\ [][ThreadStarted => Running = {}]_vars

\* The process button was clicked while the thread started for another video was
\* still inside eulerian_magnification: the click created no second thread.
C11_Witness ==
    /\ \E t \in 1..Len(threads) :
         /\ threads[t].state = "calling"
         /\ pc = "FilterPerLevel"
         /\ input_video_path # Some(threads[t].input_file)
    /\ process_button
    /\ ~replay_Originale_button
    /\ Cardinality(Running) = 1

\* The magnified result on display was computed from the selected video.
MagnifiedOfSelection ==
    (output_video_path # None /\ magnified_player # None) =>
        \A f \in results :
            f.name = magnified_player[1] => f.of = FileContent(input_video_path[1])

\* C12: whenever output_video_path is set and the magnified player has a source, that
\* output was computed from the video input_video_path names, so that selecting
\* another video at any moment, also while a thread runs, never puts the previous
\* video's result next to the new original; and the process button is not enabled
\* while a processing thread is running.
C12_MagnifiedMatchesSelection ==
    /\ MagnifiedOfSelection
    /\ Running # {} => ~process_button

====
